---- MODULE Spec2Model ----
(***************************************************************************)
(* Model of the InboxIntel client: the AppContent component of App.tsx     *)
(* (working email set, thread view, merge, sync and batch-analysis         *)
(* handlers), the backend client of services/gmailBackend.ts, the AI       *)
(* client (geminiService) and the localStorage store (storageService).     *)
(***************************************************************************)
EXTENDS Integers, Sequences, FiniteSets, TLC

\* ---------------------------------------------------------------- bounds
\* Number of distinct message ids the backend can return.
MaxIds == 3
\* Number of distinct message ids of the mailbox used by the handler model.
MaxMail == 1
\* Longest `from` header the normalizer is given, in characters.
MaxFrom == 5

\* ------------------------------------------------------------ data model
\* threadId absent (undefined) or "": both are falsy in `e.threadId || e.id`.
NoThread == 0

Ids == 1..MaxIds
\* A threadId is absent or names a conversation; conversation 1 is also the
\* id of message 1 (Gmail names a thread after its first message).
ThreadIds == {NoThread, 1}
\* receivedAt values: ISO-8601 timestamp strings.
Day1 == "2024-01-01T00:00:00Z"
Day2 == "2024-01-02T00:00:00Z"
Dates == {Day1, Day2}
\* urgencyScore values of an analysis (0 is falsy in `urgencyScore || 0`).
Scores == {0, 1}

\* analysis?: AIAnalysis -- undefined, or an object carrying urgencyScore.
NoAnalysis == [present |-> FALSE, urgencyScore |-> 0]
Analysis(score) == [present |-> TRUE, urgencyScore |-> score]
Analyses == {NoAnalysis} \cup {Analysis(s) : s \in Scores}

\* The sequence s without its last element.
Front(s) == SubSeq(s, 1, Len(s) - 1)
Last(s) == s[Len(s)]

IdsOf(es) == [i \in DOMAIN es |-> es[i].id]

\* All sequences of distinct elements of S.
RECURSIVE DistinctSeqs(_)
DistinctSeqs(S) ==
    {<<>>} \cup UNION {{<<x>> \o t : t \in DistinctSeqs(S \ {x})} : x \in S}

\* ------------------------------------------------------- thread assembly
\* new Date(e.receivedAt).getTime(), in days since 2023-12-31.
GetTime(e) ==
    CASE e.receivedAt = Day1 -> 1
      [] e.receivedAt = Day2 -> 2

\* A grouping that forgets the conversation id.
ThreadKeyIdOnly(e) == e.id

\* const tid = e.threadId || e.id
ThreadKey(e) == IF e.threadId # NoThread THEN e.threadId ELSE e.id

\* groups: Map<string, Email[]> in insertion order of the keys; each group in
\* the order of the working set.
RECURSIVE GroupEmails(_)
GroupEmails(es) ==
    IF es = <<>> THEN <<>>
    ELSE LET prev == GroupEmails(Front(es))
             e == Last(es)
             at == {i \in DOMAIN prev : ThreadKey(prev[i][1]) = ThreadKey(e)}
         IN  IF at = {} THEN Append(prev, <<e>>)
             ELSE [prev EXCEPT ![CHOOSE i \in at : TRUE] = Append(@, e)]

\* The comparator with its operands swapped.
CompareInThreadSwapped(a, b) == GetTime(b) - GetTime(a)

\* (a, b) => new Date(a.receivedAt).getTime() - new Date(b.receivedAt).getTime()
CompareInThread(a, b) == GetTime(a) - GetTime(b)

\* latest.analysis?.urgencyScore || 0
UrgencyOf(e) == IF e.analysis.present THEN e.analysis.urgencyScore ELSE 0

\* The comparator with its tie-break reversed (oldest latest message first).
CompareThreadsTieOldestFirst(a, b) ==
    LET scoreA == IF Last(a).analysis.present THEN Last(a).analysis.urgencyScore ELSE 0
        scoreB == IF Last(b).analysis.present THEN Last(b).analysis.urgencyScore ELSE 0
    IN  IF scoreA # scoreB THEN scoreB - scoreA
        ELSE GetTime(Last(a)) - GetTime(Last(b))

\* The comparator of threadList.sort: score of the latest message descending,
\* then receivedAt of the latest message descending.
CompareThreads(a, b) ==
    LET latestA == Last(a)
        latestB == Last(b)
        scoreA == UrgencyOf(latestA)
        scoreB == UrgencyOf(latestB)
    IN  IF scoreA # scoreB THEN scoreB - scoreA
        ELSE GetTime(latestB) - GetTime(latestA)

\* Array.prototype.sort is stable: an element moves left only past elements
\* the comparator puts strictly after it.
RECURSIVE InsertEmail(_, _)
InsertEmail(s, e) ==
    IF s = <<>> THEN <<e>>
    ELSE IF CompareInThread(Last(s), e) > 0
         THEN Append(InsertEmail(Front(s), e), Last(s))
         ELSE Append(s, e)

RECURSIVE SortThread(_)
SortThread(s) ==
    IF s = <<>> THEN <<>> ELSE InsertEmail(SortThread(Front(s)), Last(s))

RECURSIVE InsertThread(_, _)
InsertThread(s, t) ==
    IF s = <<>> THEN <<t>>
    ELSE IF CompareThreads(Last(s), t) > 0
         THEN Append(InsertThread(Front(s), t), Last(s))
         ELSE Append(s, t)

RECURSIVE SortThreads(_)
SortThreads(s) ==
    IF s = <<>> THEN <<>> ELSE InsertThread(SortThreads(Front(s)), Last(s))

\* const threads = useMemo(() => ..., [emails])
Threads(es) ==
    LET groups == GroupEmails(es)
        threadList == [i \in DOMAIN groups |-> SortThread(groups[i])]
    IN  SortThreads(threadList)

\* ------------------------------------------------------------------ merge
\* currentMap.get(id): the Map constructor keeps the last entry of a key.
Existing(current, id) ==
    LET at == {i \in DOMAIN current : current[i].id = id}
    IN  IF at = {} THEN NoAnalysis
        ELSE current[CHOOSE i \in at : \A j \in at : j <= i].analysis

\* A merge that returns the fetched records as they came.
mergeDroppingAnalysis(newRawEmails, current) == newRawEmails

\* A merge that keeps the records of the closure the fetch no longer has.
mergeKeepingStale(newRawEmails, current) ==
    [i \in DOMAIN newRawEmails |->
        IF Existing(current, newRawEmails[i].id).present
        THEN [newRawEmails[i] EXCEPT
                 !.analysis = Existing(current, newRawEmails[i].id)]
        ELSE newRawEmails[i]]
    \o SelectSeq(current,
                 LAMBDA e : \A i \in DOMAIN newRawEmails : newRawEmails[i].id # e.id)

\* A merge that appends the fetched records to the records of the closure.
mergeAppending(newRawEmails, current) ==
    current \o
    [i \in DOMAIN newRawEmails |->
        IF Existing(current, newRawEmails[i].id).present
        THEN [newRawEmails[i] EXCEPT
                 !.analysis = Existing(current, newRawEmails[i].id)]
        ELSE newRawEmails[i]]

\* mergeEmails(newRawEmails) against the `emails` of the closure.
mergeEmails(newRawEmails, current) ==
    [i \in DOMAIN newRawEmails |->
        LET raw == newRawEmails[i]
            existing == Existing(current, raw.id)
        IN  IF existing.present
            THEN [raw EXCEPT !.analysis = existing]
            ELSE raw]

\* ------------------------------------------------------------------ state
\* selectedThreadId and userEmail are display state that no handler reads back;
\* they are left out.
VARIABLES
    emails,          \* useState<Email[]>([]): the working set
    threads,         \* useMemo over emails: the thread view of the last render
    stored,          \* localStorage[DB_KEY]: the persisted email list
    isLoadingAuth,   \* useState(true)
    isAuthenticated, \* useState(false)
    isConfigured,    \* useState(true)
    isOffline,       \* useState(false)
    activeTab,       \* useState('inbox')
    isSyncing,       \* useState(false)
    isAnalyzing,     \* useState(false)
    statusReq,       \* initAuth: "pending" while checkBackendAuthStatus is in flight
    cacheReqs,       \* in-flight handleLoadCache calls, each with its closure
    syncReqs,        \* in-flight handleSync calls, each with its closure
    aiReqs,          \* in-flight handleRunAI calls, each with its closure
    aiInstance,      \* geminiService: the cached client (TRUE once constructed)
    apiKey,          \* process.env.API_KEY is set (fixed by the build)
    mounted,         \* the mount effect's cleanup has not run
    event            \* the last step taken and what it was given

vars == <<emails, threads, stored, isLoadingAuth, isAuthenticated, isConfigured,
          isOffline, activeTab, isSyncing, isAnalyzing, statusReq, cacheReqs,
          syncReqs, aiReqs, aiInstance, apiKey, mounted, event>>

uiVars == <<isLoadingAuth, isAuthenticated, isConfigured, isOffline, activeTab>>
reqVars == <<statusReq, cacheReqs, syncReqs, aiReqs>>

\* localStorage.getItem(DB_KEY) === null
NoStore == [present |-> FALSE, emails |-> <<>>]
\* db.saveEmails(list): JSON.stringify then setItem, a full overwrite.
Saved(list) == [present |-> TRUE, emails |-> list]

\* What a step records: the operation, how the network call it waited for
\* ended, the `emails` of the closure it ran in, the normalized list it was
\* given, the analysis map it was given, and whether the service call threw.
Event(op, kind, cur, incoming, results, threw) ==
    [op |-> op, kind |-> kind, cur |-> cur, incoming |-> incoming,
     results |-> results, threw |-> threw]

\* setEmails(list) followed by the render it schedules (threads is recomputed).
SetEmails(list) ==
    /\ emails' = list
    /\ threads' = Threads(list)

\* The state of a freshly constructed component.
InitComponent ==
    /\ emails = <<>>
    /\ threads = <<>>
    /\ isLoadingAuth = TRUE
    /\ isAuthenticated = FALSE
    /\ isConfigured = TRUE
    /\ isOffline = FALSE
    /\ activeTab = "inbox"
    /\ isSyncing = FALSE
    /\ isAnalyzing = FALSE
    /\ statusReq = "pending"
    /\ cacheReqs = <<>>
    /\ syncReqs = <<>>
    /\ aiReqs = <<>>
    /\ aiInstance = FALSE
    /\ mounted = TRUE
    /\ event = Event("init", "", <<>>, <<>>, <<>>, FALSE)

\* ------------------------------------------------- inputs of the pure parts
\* An Email record as the normalizer and the analysis client leave it.
EmailRec(id, threadId, receivedAt, analysis) ==
    [id |-> id, threadId |-> threadId, receivedAt |-> receivedAt,
     analysis |-> analysis]

\* Every list over idList's ids, in that order, with attributes drawn from the
\* given sets.
WorkingSetsOver(idList, threadIds, dates, analyses) ==
    {[i \in DOMAIN idList |-> EmailRec(idList[i], f[i][1], f[i][2], f[i][3])] :
        f \in [DOMAIN idList -> threadIds \X dates \X analyses]}

\* The working set is replaced wholesale (setEmails of a list the component can
\* hold: distinct ids, any order) and the thread view is recomputed.
LoadWorkingSet(threadIds, dates, analyses) ==
    /\ event.op = "init"
    /\ \E idList \in DistinctSeqs(Ids) :
         \E list \in WorkingSetsOver(idList, threadIds, dates, analyses) :
            /\ SetEmails(list)
            /\ event' = Event("load", "", <<>>, list, <<>>, FALSE)
    /\ UNCHANGED <<stored, uiVars, isSyncing, isAnalyzing, reqVars, aiInstance,
                   apiKey, mounted>>

\* Any working set: every thread shape, date and analysis.
ReplaceWorkingSet == LoadWorkingSet(ThreadIds, Dates, Analyses)

\* A working set fetched on Day1 that has since been analysed in part.
LoadCurrent == LoadWorkingSet({NoThread}, {Day1}, Analyses)

\* A fetch/sync result (normalizer output: no analysis) is merged into the
\* working set of the current render.
ApplyMerge ==
    /\ event.op = "load"
    /\ \E idList \in DistinctSeqs(Ids) :
         \E incoming \in WorkingSetsOver(idList, {1}, {Day2}, {NoAnalysis}) :
            /\ SetEmails(mergeEmails(incoming, emails))
            /\ event' = Event("merge", "", emails, incoming, <<>>, FALSE)
    /\ UNCHANGED <<stored, uiVars, isSyncing, isAnalyzing, reqVars, aiInstance,
                   apiKey, mounted>>

\* A signed-in session past its mount effect, nothing in flight.
InitLoaded ==
    /\ emails = <<>>
    /\ threads = <<>>
    /\ stored = NoStore
    /\ isLoadingAuth = FALSE
    /\ isAuthenticated = TRUE
    /\ isConfigured = TRUE
    /\ isOffline = FALSE
    /\ activeTab = "inbox"
    /\ isSyncing = FALSE
    /\ isAnalyzing = FALSE
    /\ statusReq = "done"
    /\ cacheReqs = <<>>
    /\ syncReqs = <<>>
    /\ aiReqs = <<>>
    /\ aiInstance = FALSE
    /\ apiKey = TRUE
    /\ mounted = TRUE
    /\ event = Event("init", "", <<>>, <<>>, <<>>, FALSE)

\* The same fetch/sync result is merged again, now into the output of the first
\* merge.
MergeAgain ==
    /\ event.op = "merge"
    /\ SetEmails(mergeEmails(event.incoming, emails))
    /\ event' = Event("remerge", "", emails, event.incoming, <<>>, FALSE)
    /\ UNCHANGED <<stored, uiVars, isSyncing, isAnalyzing, reqVars, aiInstance,
                   apiKey, mounted>>

NextMerge == LoadCurrent \/ ApplyMerge \/ MergeAgain
SpecMerge == InitLoaded /\ [][NextMerge]_vars

\* ------------------------------------------------------- backend client
\* msg.date absent (undefined) or "": falsy in `msg.date || new Date()...`.
NoDate == ""
\* new Date().toISOString() at the time of the fetch.
Now == Day2

MailIds == 1..MaxMail

\* ------------------------------------------------- the sender of a message
\* A header is a sequence of characters: a letter, a blank, the two angle
\* brackets and the double quote (no line terminator, which `.` would not
\* match).
Chars == {"x", " ", "<", ">", "\""}
\* msg.from absent (undefined) or "": falsy in `if (msg.from)`.
NoFrom == <<>>
\* Every header of at most maxLen characters.
FromHeaders(maxLen) == UNION {[1..n -> Chars] : n \in 0..maxLen}

\* Fixed strings are single tokens.
UnknownName == <<"Unknown">>
UnknownEmail == <<"unknown@example.com">>

\* String.prototype.trim
RECURSIVE Trim(_)
Trim(str) ==
    IF str = <<>> THEN <<>>
    ELSE IF str[1] = " " THEN Trim(Tail(str))
    ELSE IF str[Len(str)] = " " THEN Trim(Front(str))
    ELSE str

\* replace(/"/g, '')
StripQuotes(str) == SelectSeq(str, LAMBDA c : c # "\"")

\* msg.from.match(/(.*)<(.*)>/): both groups are greedy, so the first one ends
\* at the last "<" that has a ">" after it and the second one at the last
\* ">"; no match gives null.
Closers(str) == {j \in DOMAIN str : str[j] = ">"}
Openers(str) ==
    {i \in DOMAIN str : str[i] = "<" /\ \E j \in Closers(str) : i < j}
Max(S) == CHOOSE m \in S : \A n \in S : n <= m
Match(str) ==
    IF Openers(str) = {}
    THEN [matched |-> FALSE, name |-> <<>>, addr |-> <<>>]
    ELSE [matched |-> TRUE,
          name |-> SubSeq(str, 1, Max(Openers(str)) - 1),
          addr |-> SubSeq(str, Max(Openers(str)) + 1, Max(Closers(str)) - 1)]

\* A sender derivation that does not trim the two groups.
SenderOfUntrimmed(from) ==
    IF from = NoFrom
    THEN [senderName |-> UnknownName, sender |-> UnknownEmail]
    ELSE IF Match(from).matched
    THEN [senderName |-> StripQuotes(Match(from).name),
          sender |-> Match(from).addr]
    ELSE [senderName |-> from, sender |-> from]

\* senderName and senderEmail of mapBackendMessageToEmail
SenderOf(from) ==
    IF from = NoFrom
    THEN [senderName |-> UnknownName, sender |-> UnknownEmail]
    ELSE IF Match(from).matched
    THEN [senderName |-> StripQuotes(Trim(Match(from).name)),
          sender |-> Trim(Match(from).addr)]
    ELSE [senderName |-> from, sender |-> from]

\* The mailbox behind the backend: message 1 opens conversation 1, message 2
\* answers in it a day later, every further message is a conversation of its
\* own and carries no date; only message 1 names its sender.
BackendMessage(id) ==
    [id |-> id,
     threadId |-> IF id = 2 THEN 1 ELSE NoThread,
     from |-> IF id = 1 THEN <<"x", " ", "<", "x", ">">> ELSE NoFrom,
     date |-> IF id = 1 THEN Day1 ELSE IF id = 2 THEN Day2 ELSE NoDate]

\* A normalizer that fills an absent threadId with the id.
mapBackendMessageDefaultingThread(msg) ==
    [id |-> msg.id,
     threadId |-> IF msg.threadId = NoThread THEN msg.id ELSE msg.threadId,
     sender |-> SenderOf(msg.from).sender,
     senderName |-> SenderOf(msg.from).senderName,
     receivedAt |-> IF msg.date # NoDate THEN msg.date ELSE Now,
     analysis |-> NoAnalysis]

\* mapBackendMessageToEmail, the fields the working set is read by.
mapBackendMessageToEmail(msg) ==
    [id |-> msg.id,
     threadId |-> msg.threadId,
     sender |-> SenderOf(msg.from).sender,
     senderName |-> SenderOf(msg.from).senderName,
     receivedAt |-> IF msg.date # NoDate THEN msg.date ELSE Now,
     analysis |-> NoAnalysis]

\* The message lists the backend answers with: any part of the mailbox, in
\* mailbox order.
RECURSIVE SubLists(_)
SubLists(n) ==
    IF n = 0 THEN {<<>>}
    ELSE LET rest == SubLists(n - 1)
         IN  rest \cup {Append(l, BackendMessage(n)) : l \in rest}

\* What a fetch() to a data endpoint ends with: a rejected promise, a non-2xx
\* response, a body that is not JSON, or {messages: [...]}.
Responses ==
    {[kind |-> k, messages |-> <<>>] : k \in {"unreachable", "non2xx", "badjson"}}
    \cup {[kind |-> "ok", messages |-> l] : l \in SubLists(MaxMail)}

\* constants.ts MOCK_EMAILS: the demo inbox.
MOCK_EMAILS == [i \in MailIds |-> mapBackendMessageToEmail(BackendMessage(i))]

Returned(value) == [threw |-> FALSE, value |-> value]
Thrown == [threw |-> TRUE, value |-> <<>>]

\* fetchEmailsFromBackend: any failure falls back to the mocks.
fetchEmailsFromBackend(resp) ==
    IF resp.kind = "ok"
    THEN Returned([i \in DOMAIN resp.messages |->
                      mapBackendMessageToEmail(resp.messages[i])])
    ELSE Returned(MOCK_EMAILS)

\* A sync that degrades to an empty list as searchEmailsOnBackend does.
syncEmailsSwallowing(resp) ==
    IF resp.kind = "ok"
    THEN Returned([i \in DOMAIN resp.messages |->
                      mapBackendMessageToEmail(resp.messages[i])])
    ELSE Returned(<<>>)

\* syncEmailsWithBackend: any failure is logged and thrown again.
syncEmailsWithBackend(resp) ==
    IF resp.kind = "ok"
    THEN Returned([i \in DOMAIN resp.messages |->
                      mapBackendMessageToEmail(resp.messages[i])])
    ELSE Thrown

\* A search that throws its failure again, as the sync does.
searchEmailsRethrowing(resp) ==
    IF resp.kind = "ok"
    THEN Returned([i \in DOMAIN resp.messages |->
                      mapBackendMessageToEmail(resp.messages[i])])
    ELSE Thrown

\* searchEmailsOnBackend: any failure gives the empty list.
searchEmailsOnBackend(resp) ==
    IF resp.kind = "ok"
    THEN Returned([i \in DOMAIN resp.messages |->
                      mapBackendMessageToEmail(resp.messages[i])])
    ELSE Returned(<<>>)

\* What GET /auth/status ends with: a rejected promise, a non-2xx response, a
\* body that is not JSON, or the status object; data.isConfigured may be
\* undefined.
StatusResponses ==
    {[kind |-> k, isAuthenticated |-> FALSE, isConfigured |-> "undefined"] :
        k \in {"unreachable", "non2xx", "badjson"}}
    \cup {[kind |-> "ok", isAuthenticated |-> a, isConfigured |-> c] :
            a \in BOOLEAN, c \in {"undefined", "true", "false"}}

\* checkBackendAuthStatus: fetch() and response.json() are inside the try.
checkBackendAuthStatus(resp) ==
    IF resp.kind \in {"unreachable", "badjson"}
    THEN [isConfigured |-> FALSE, isAuthenticated |-> FALSE, isOffline |-> TRUE]
    ELSE IF resp.kind # "ok"
    THEN [isConfigured |-> FALSE, isAuthenticated |-> FALSE, isOffline |-> FALSE]
    ELSE [isConfigured |-> resp.isConfigured # "false",
          isAuthenticated |-> resp.isAuthenticated,
          isOffline |-> FALSE]

\* ------------------------------------------------------------- AI client
\* What generateContent ends with: a result map (id -> analysis, for any ids
\* the service chose to answer), or a failure.
ResultMaps ==
    UNION {[S -> {Analysis(s) : s \in Scores}] : S \in SUBSET MailIds}
AIFailures == {"leaked", "invalid", "api", "nodata"}

\* error.error of a thrown value: absent, or the service's error body with an
\* optional code and an optional message.
NoCode == 0
NoMessage == ""
NoErrorBody == [present |-> FALSE, code |-> NoCode, message |-> NoMessage]
ErrorBody(code, message) == [present |-> TRUE, code |-> code, message |-> message]

\* A thrown value: an Error's own message, and its `.error` if it has one.
ThrownValue(message, body) == [message |-> message, error |-> body]
\* new Error(message)
NewError(message) == ThrownValue(message, NoErrorBody)

\* The status codes and messages a service error body is drawn from.
ServiceCodes == {NoCode, 400, 401, 403, 429}
ServiceMessages ==
    {NoMessage, "Your API key was reported as leaked.", "API key not valid.",
     "Token was leaked.", "Resource has been exhausted."}
\* message.includes("leaked"), message.includes("API key")
IncludesLeaked(m) ==
    m \in {"Your API key was reported as leaked.", "Token was leaked."}
IncludesApiKey(m) ==
    m \in {"Your API key was reported as leaked.", "API key not valid."}

ConfigMessage ==
    "Gemini API key is not configured. Please set API_KEY or GEMINI_API_KEY in your .env.local file. Get your key from: https://aistudio.google.com/app/apikey"
LeakedMessage ==
    "Your API key has been reported as leaked. Please generate a NEW API key from https://aistudio.google.com/app/apikey and update your .env.local file."
InvalidKeyMessage ==
    "Invalid API key. Please check your API_KEY in .env.local file. Get a new key from: https://aistudio.google.com/app/apikey"
NoDataMessage == "No data returned from AI"

\* What the try block of analyzeEmailBatch can throw once the client exists:
\* a service error with a body, a failed fetch, an empty answer, an answer
\* that JSON.parse rejects.
ServiceThrows ==
    {ThrownValue("ApiError", ErrorBody(c, m)) :
        c \in ServiceCodes, m \in ServiceMessages}
    \cup {NewError("fetch failed"), NewError(NoDataMessage),
          NewError("Unexpected token")}

\* The thrown value behind each failure the component is run against.
ThrownBy(kind) ==
    CASE kind = "leaked" -> ThrownValue("ApiError", ErrorBody(403, NoMessage))
      [] kind = "invalid" -> ThrownValue("ApiError", ErrorBody(401, NoMessage))
      [] kind = "api" ->
            ThrownValue("ApiError",
                        ErrorBody(429, "Resource has been exhausted."))
      [] kind = "nodata" -> NewError(NoDataMessage)

AIOutcomes ==
    {[kind |-> k, results |-> <<>>, thrown |-> ThrownBy(k)] : k \in AIFailures}
    \cup {[kind |-> "ok", results |-> m, thrown |-> NewError(NoMessage)] :
            m \in ResultMaps}

\* Every outcome of generateContent, for the service called directly.
ServiceOutcomes ==
    {[kind |-> "error", results |-> <<>>, thrown |-> t] : t \in ServiceThrows}
    \cup {o \in AIOutcomes : o.kind = "ok"}

ThrownError(e) == [threw |-> TRUE, value |-> <<>>, error |-> e]

\* A client factory that never looks at the key.
getAIUnchecked(instance, key) ==
    [threw |-> FALSE, aiInstance |-> TRUE, error |-> NewError(NoMessage)]

\* getAI: the cached client, or a new one if the key is set; without a key it
\* throws before aiInstance is assigned.
getAI(instance, key) ==
    IF instance
    THEN [threw |-> FALSE, aiInstance |-> TRUE, error |-> NewError(NoMessage)]
    ELSE IF ~key
    THEN [threw |-> TRUE, aiInstance |-> FALSE, error |-> NewError(ConfigMessage)]
    ELSE [threw |-> FALSE, aiInstance |-> TRUE, error |-> NewError(NoMessage)]

\* A catch block that throws what it caught.
analyzeCatchRethrowing(error) == error

\* The catch block of analyzeEmailBatch: what it throws for what it caught.
analyzeCatch(error) ==
    IF error.error.present
       /\ (error.error.code = 403 \/ IncludesLeaked(error.error.message))
    THEN NewError(LeakedMessage)
    ELSE IF error.error.present
            /\ (error.error.code = 401 \/ IncludesApiKey(error.error.message))
    THEN NewError(InvalidKeyMessage)
    ELSE IF error.error.present /\ error.error.message # NoMessage
    THEN NewError("API Error: " \o error.error.message)
    ELSE error

\* A batch analysis that fails closed with an empty map.
analyzeEmailBatchSwallowing(outcome) ==
    IF outcome.kind = "ok" THEN Returned(outcome.results) ELSE Returned(<<>>)

\* analyzeEmailBatch after getAI() succeeded: the result map, or the throw of
\* the catch block.
analyzeEmailBatch(outcome) ==
    IF outcome.kind = "ok"
    THEN Returned(outcome.results)
    ELSE ThrownError(analyzeCatch(outcome.thrown))

\* analyzeEmailBatch from its first line: getAI() is inside the try, so what
\* it throws goes through the same catch block.
analyzeEmailBatchCall(ai, outcome) ==
    IF ai.threw
    THEN ThrownError(analyzeCatch(ai.error))
    ELSE analyzeEmailBatch(outcome)

ReplyErrorText == "Error generating reply. Please try again."
NoReplyText == "Could not generate reply."

\* What generateContent ends with for a reply draft: a text (possibly empty)
\* or a throw.
ReplyOutcomes ==
    {[kind |-> "error", text |-> "", thrown |-> t] : t \in ServiceThrows}
    \cup {[kind |-> "ok", text |-> x, thrown |-> NewError(NoMessage)] :
            x \in {"", "Thank you for your email."}}

\* A reply draft that lets its failure out, as analyzeEmailBatch does.
generateSmartReplyThrowing(ai, outcome) ==
    IF ai.threw
    THEN ThrownError(ai.error)
    ELSE IF outcome.kind # "ok"
    THEN ThrownError(outcome.thrown)
    ELSE Returned(IF outcome.text # "" THEN outcome.text ELSE NoReplyText)

\* generateSmartReply: getAI() and the request are inside the try; the catch
\* returns the fixed text.
generateSmartReply(ai, outcome) ==
    IF ai.threw
    THEN Returned(ReplyErrorText)
    ELSE IF outcome.kind # "ok"
    THEN Returned(ReplyErrorText)
    ELSE Returned(IF outcome.text # "" THEN outcome.text ELSE NoReplyText)

\* ---------------------------------------------------------------- renders
\* The main app render (not the spinner, offline, setup or login screens).
MainVisible ==
    /\ mounted
    /\ ~isLoadingAuth
    /\ ~isOffline
    /\ isConfigured
    /\ isAuthenticated \/ Len(emails) > 0

LoginVisible ==
    /\ mounted
    /\ ~isLoadingAuth
    /\ ~isOffline
    /\ isConfigured
    /\ ~isAuthenticated /\ Len(emails) = 0

\* The thread list with the Fetch and Run AI buttons.
InboxVisible == MainVisible /\ activeTab = "inbox"

\* Fetch button: disabled={isSyncing}
FetchDisabled == isSyncing

\* The Run AI button, were it disabled by an empty thread list alone.
RunAIDisabledNoThreadsOnly == Len(threads) = 0

\* Run AI button: disabled={threads.length === 0 || isAnalyzing}
RunAIDisabled == Len(threads) = 0 \/ isAnalyzing

\* The sequence s without its i-th element.
RemoveAt(s, i) == SubSeq(s, 1, i - 1) \o SubSeq(s, i + 1, Len(s))

\* A batch of the first message of each thread.
EmailsToAnalyzeFirst(es, ths) ==
    SelectSeq(es, LAMBDA e : e.id \in {ths[t][1].id : t \in DOMAIN ths})

\* emails.filter(e => latestEmailIds.has(e.id))
EmailsToAnalyze(es, ths) ==
    LET latestEmailIds == {Last(ths[t]).id : t \in DOMAIN ths}
    IN  SelectSeq(es, LAMBDA e : e.id \in latestEmailIds)

\* An update without the `|| email.analysis` fallback.
UpdatedEmailsOverwriting(es, results) ==
    [i \in DOMAIN es |->
        [es[i] EXCEPT !.analysis =
            IF es[i].id \in DOMAIN results THEN results[es[i].id] ELSE NoAnalysis]]

\* emails.map(email => ({...email, analysis: results[email.id] || email.analysis}))
UpdatedEmails(es, results) ==
    [i \in DOMAIN es |->
        [es[i] EXCEPT !.analysis =
            IF es[i].id \in DOMAIN results THEN results[es[i].id] ELSE @]]

\* --------------------------------------------------------------- handlers
\* useState<Email[]>([]): the `emails` the mount effect's closures see.
InitialEmails == <<>>

\* initAuth resumes after `await checkBackendAuthStatus()`; `if (!mounted)
\* return` drops the answer of a status check that outlived the component.
initAuth ==
    /\ statusReq = "pending"
    /\ \E resp \in StatusResponses :
         LET status == checkBackendAuthStatus(resp)
             savedData == stored.emails
         IN  /\ statusReq' = "done"
             /\ event' = Event("status", resp.kind, <<>>, <<>>, <<>>, FALSE)
             /\ IF ~mounted
                THEN UNCHANGED <<emails, threads, isConfigured, isAuthenticated,
                                 isOffline, isLoadingAuth, cacheReqs, syncReqs,
                                 isSyncing>>
                ELSE /\ isConfigured' = status.isConfigured
                     /\ isAuthenticated' = status.isAuthenticated
                     /\ isOffline' = status.isOffline
                     /\ isLoadingAuth' = FALSE
                     /\ IF status.isAuthenticated
                        THEN \* handleLoadCache(); handleSync(true)
                             /\ cacheReqs' =
                                    Append(cacheReqs, [cur |-> InitialEmails])
                             /\ syncReqs' =
                                    Append(syncReqs, [cur |-> InitialEmails,
                                                      auto |-> TRUE])
                             /\ isSyncing' = TRUE
                             /\ UNCHANGED <<emails, threads>>
                        ELSE \* db.getEmails()
                             /\ IF stored.present /\ Len(savedData) > 0
                                THEN SetEmails(savedData)
                                ELSE UNCHANGED <<emails, threads>>
                             /\ UNCHANGED <<cacheReqs, syncReqs, isSyncing>>
    /\ UNCHANGED <<stored, activeTab, isAnalyzing, aiReqs, aiInstance, apiKey,
                   mounted>>

\* handleLoadCache resumes after `await fetchEmailsFromBackend()`.
handleLoadCache ==
    \E i \in DOMAIN cacheReqs, resp \in Responses :
        LET req == cacheReqs[i]
            cachedEmails == fetchEmailsFromBackend(resp).value
            merged == mergeEmails(cachedEmails, req.cur)
        IN  /\ cacheReqs' = RemoveAt(cacheReqs, i)
            /\ SetEmails(merged)
            /\ event' = Event("cache", resp.kind, req.cur, cachedEmails, <<>>, FALSE)
            /\ UNCHANGED <<stored, uiVars, isSyncing, isAnalyzing, statusReq,
                           syncReqs, aiReqs, aiInstance, apiKey, mounted>>

\* The Fetch button: handleSync(false) up to `await syncEmailsWithBackend()`.
handleSyncClick ==
    /\ InboxVisible
    /\ ~FetchDisabled
    /\ isSyncing' = TRUE
    /\ syncReqs' = Append(syncReqs, [cur |-> emails, auto |-> FALSE])
    /\ event' = Event("syncClick", "", emails, <<>>, <<>>, FALSE)
    /\ UNCHANGED <<emails, threads, stored, uiVars, isAnalyzing, statusReq,
                   cacheReqs, aiReqs, aiInstance, apiKey, mounted>>

\* handleSync resumes after `await syncEmailsWithBackend()`: the try body or
\* the catch, then the finally.
handleSync ==
    \E i \in DOMAIN syncReqs, resp \in Responses :
        LET req == syncReqs[i]
            call == syncEmailsWithBackend(resp)
            merged == mergeEmails(call.value, req.cur)
        IN  /\ syncReqs' = RemoveAt(syncReqs, i)
            /\ IF call.threw
               THEN UNCHANGED <<emails, threads, stored>>
               ELSE /\ SetEmails(merged)
                    /\ stored' = Saved(merged)
            /\ isSyncing' = FALSE
            /\ event' = Event("sync", resp.kind, req.cur, call.value, <<>>,
                              call.threw)
            /\ UNCHANGED <<uiVars, isAnalyzing, statusReq, cacheReqs, aiReqs,
                           aiInstance, apiKey, mounted>>

\* The Run AI button with a client at hand (getAI() returns): handleRunAI up
\* to the `await ai.models.generateContent(...)` inside analyzeEmailBatch.
handleRunAIClick ==
    /\ InboxVisible
    /\ ~RunAIDisabled
    /\ Len(emails) # 0
    /\ ~getAI(aiInstance, apiKey).threw
    /\ aiInstance' = getAI(aiInstance, apiKey).aiInstance
    /\ isAnalyzing' = TRUE
    /\ aiReqs' = Append(aiReqs, [cur |-> emails,
                                 batch |-> EmailsToAnalyze(emails, threads)])
    /\ event' = Event("aiClick", "", emails, EmailsToAnalyze(emails, threads),
                      <<>>, FALSE)
    /\ UNCHANGED <<emails, threads, stored, uiVars, isSyncing, statusReq,
                   cacheReqs, syncReqs, apiKey, mounted>>

\* The Run AI button without credentials: getAI() throws before any request,
\* analyzeEmailBatch rethrows, handleRunAI alerts and clears the busy flag, all
\* before any other callback runs.
handleRunAINoKey ==
    /\ InboxVisible
    /\ ~RunAIDisabled
    /\ Len(emails) # 0
    /\ getAI(aiInstance, apiKey).threw
    /\ isAnalyzing' = FALSE
    /\ event' = Event("ai", "config", emails, EmailsToAnalyze(emails, threads),
                      <<>>, TRUE)
    /\ aiInstance' = getAI(aiInstance, apiKey).aiInstance
    /\ UNCHANGED <<emails, threads, stored, uiVars, isSyncing, reqVars,
                   apiKey, mounted>>

\* handleRunAI resumes after `await analyzeEmailBatch(emailsToAnalyze)`: the
\* try body or the catch, then the finally.
handleRunAI ==
    \E i \in DOMAIN aiReqs, outcome \in AIOutcomes :
        LET req == aiReqs[i]
            call == analyzeEmailBatch(outcome)
            updatedEmails == UpdatedEmails(req.cur, call.value)
        IN  /\ aiReqs' = RemoveAt(aiReqs, i)
            /\ IF call.threw
               THEN UNCHANGED <<emails, threads, stored, activeTab>>
               ELSE /\ SetEmails(updatedEmails)
                    /\ stored' = Saved(updatedEmails)
                    /\ activeTab' = "dashboard"
            /\ isAnalyzing' = FALSE
            /\ event' = Event("ai", outcome.kind, req.cur, req.batch, call.value,
                              call.threw)
            /\ UNCHANGED <<isLoadingAuth, isAuthenticated, isConfigured,
                           isOffline, isSyncing, statusReq, cacheReqs, syncReqs,
                           aiInstance, apiKey, mounted>>

\* "Try Demo Mode" on the login page.
handleDemoMode ==
    /\ LoginVisible
    /\ SetEmails(MOCK_EMAILS)
    /\ isAuthenticated' = TRUE
    /\ event' = Event("demo", "", <<>>, <<>>, <<>>, FALSE)
    /\ UNCHANGED <<stored, isLoadingAuth, isConfigured, isOffline, activeTab,
                   isSyncing, isAnalyzing, reqVars, aiInstance, apiKey,
                   mounted>>

\* The Inbox and Analytics buttons of the sidebar.
setActiveTab ==
    /\ MainVisible
    /\ \E tab \in {"inbox", "dashboard"} :
         /\ tab # activeTab
         /\ activeTab' = tab
    /\ event' = Event("tab", "", <<>>, <<>>, <<>>, FALSE)
    /\ UNCHANGED <<emails, threads, stored, isLoadingAuth, isAuthenticated,
                   isConfigured, isOffline, isSyncing, isAnalyzing, reqVars,
                   aiInstance, apiKey, mounted>>

\* The component is unmounted: the mount effect's cleanup runs. No request is
\* aborted (no fetch() is given a signal) and no callback is cancelled.
Unmount ==
    /\ mounted
    /\ mounted' = FALSE
    /\ event' = Event("unmount", "", <<>>, <<>>, <<>>, FALSE)
    /\ UNCHANGED <<emails, threads, stored, uiVars, isSyncing, isAnalyzing,
                   reqVars, aiInstance, apiKey>>

\* window.location.reload(): a new page, a new component and a new module
\* state; the requests of the old page are gone, localStorage stays.
Reload ==
    /\ emails' = <<>>
    /\ threads' = <<>>
    /\ isLoadingAuth' = TRUE
    /\ isAuthenticated' = FALSE
    /\ isConfigured' = TRUE
    /\ isOffline' = FALSE
    /\ activeTab' = "inbox"
    /\ isSyncing' = FALSE
    /\ isAnalyzing' = FALSE
    /\ statusReq' = "pending"
    /\ cacheReqs' = <<>>
    /\ syncReqs' = <<>>
    /\ aiReqs' = <<>>
    /\ aiInstance' = FALSE
    /\ mounted' = TRUE
    /\ event' = Event("init", "", <<>>, <<>>, <<>>, FALSE)
    /\ UNCHANGED <<stored, apiKey>>

Init ==
    /\ InitComponent
    /\ stored = NoStore
    /\ apiKey \in BOOLEAN

Next ==
    \/ initAuth
    \/ handleLoadCache
    \/ handleSyncClick
    \/ handleSync
    \/ handleRunAIClick
    \/ handleRunAINoKey
    \/ handleRunAI
    \/ handleDemoMode
    \/ setActiveTab
    \/ Unmount
    \/ Reload

Spec == Init /\ [][Next]_vars

\* A page load left to itself: the mount effect and the two requests it
\* starts, with no button pressed; a reload starts the next one.
NextMount ==
    \/ initAuth
    \/ handleLoadCache
    \/ handleSync
    \/ Reload

SpecMount == Init /\ [][NextMount]_vars

\* Any working set, then the Run AI button.
NextThreads == ReplaceWorkingSet \/ handleRunAIClick
SpecThreads == InitLoaded /\ [][NextThreads]_vars

\* ---------------------------------------------------------- service calls
\* The service modules called directly, each with every answer its network
\* call can end with; `event` keeps the call and what came back to the caller.
ServiceCall(op, kind, call) ==
    /\ event' = [op |-> op, kind |-> kind, threw |-> call.threw,
                 value |-> call.value]
    /\ UNCHANGED <<emails, threads, stored, uiVars, isSyncing, isAnalyzing,
                   reqVars, apiKey, mounted>>

CallCheckBackendAuthStatus ==
    /\ \E resp \in StatusResponses :
         ServiceCall("checkBackendAuthStatus", resp.kind,
                     Returned(checkBackendAuthStatus(resp)))
    /\ UNCHANGED aiInstance

CallFetchEmailsFromBackend ==
    /\ \E resp \in Responses :
         ServiceCall("fetchEmailsFromBackend", resp.kind,
                     fetchEmailsFromBackend(resp))
    /\ UNCHANGED aiInstance

CallSearchEmailsOnBackend ==
    /\ \E resp \in Responses :
         ServiceCall("searchEmailsOnBackend", resp.kind,
                     searchEmailsOnBackend(resp))
    /\ UNCHANGED aiInstance

CallSyncEmailsWithBackend ==
    /\ \E resp \in Responses :
         ServiceCall("syncEmailsWithBackend", resp.kind,
                     syncEmailsWithBackend(resp))
    /\ UNCHANGED aiInstance

\* What a thrown value is recorded as when nothing was thrown.
NoError == NewError(NoMessage)

\* A call of an AI operation: `requested` says whether generateContent was
\* called, `key` whether credentials were there, `thrown` what the try block
\* threw and `error` what the caller saw thrown.
AICall(op, outcome, ai, call) ==
    /\ aiInstance' = ai.aiInstance
    /\ event' = [op |-> op, kind |-> outcome.kind, threw |-> call.threw,
                 value |-> call.value,
                 error |-> IF call.threw THEN call.error ELSE NoError,
                 thrown |-> IF ai.threw THEN ai.error ELSE outcome.thrown,
                 requested |-> ~ai.threw, key |-> apiKey]
    /\ UNCHANGED <<emails, threads, stored, uiVars, isSyncing, isAnalyzing,
                   reqVars, apiKey, mounted>>

\* The raw records the normalizer is called with: with and without threadId
\* (never the record's own id), with and without date, every header.
RawIds == {2}
RawMessages(headers) ==
    {[id |-> i, threadId |-> t, from |-> f, date |-> d] :
        i \in RawIds, t \in ThreadIds, f \in headers, d \in {NoDate, Day1}}

CallMapBackendMessageToEmail ==
    /\ event.op = "init"
    /\ \E msg \in RawMessages(FromHeaders(MaxFrom)) :
         event' = [op |-> "mapBackendMessageToEmail", raw |-> msg,
                   threw |-> FALSE, value |-> mapBackendMessageToEmail(msg)]
    /\ UNCHANGED <<emails, threads, stored, uiVars, isSyncing, isAnalyzing,
                   reqVars, aiInstance, apiKey, mounted>>

CallAnalyzeEmailBatch ==
    \E outcome \in ServiceOutcomes :
        LET ai == getAI(aiInstance, apiKey)
        IN  AICall("analyzeEmailBatch", outcome, ai,
                   analyzeEmailBatchCall(ai, outcome))

CallGenerateSmartReply ==
    \E outcome \in ReplyOutcomes :
        LET ai == getAI(aiInstance, apiKey)
        IN  AICall("generateSmartReply", outcome, ai,
                   generateSmartReply(ai, outcome))

NextServices ==
    \/ CallCheckBackendAuthStatus
    \/ CallFetchEmailsFromBackend
    \/ CallSearchEmailsOnBackend
    \/ CallSyncEmailsWithBackend
    \/ CallAnalyzeEmailBatch
    \/ CallGenerateSmartReply

SpecServices == Init /\ [][NextServices]_vars

\* The normalizer applied once to each raw record.
SpecNormalizer == InitLoaded /\ [][CallMapBackendMessageToEmail]_vars

\* ------------------------------------------------------------- properties
\* The analysis the list holds under an id, if any record with that id has one.
AnalysedIn(list, id) ==
    {j \in DOMAIN list : list[j].id = id /\ list[j].analysis.present}

\* C1: after mergeEmails, an output record whose id has a record with an
\* analysis in the closure's working set carries exactly that analysis, every
\* incoming id that has one there is in the output, and every other output
\* record has no analysis.
MergePreservesAnalysis ==
    event.op = "merge" =>
        /\ \A i \in DOMAIN emails :
             IF AnalysedIn(event.cur, emails[i].id) # {}
             THEN \A j \in AnalysedIn(event.cur, emails[i].id) :
                     emails[i].analysis = event.cur[j].analysis
             ELSE emails[i].analysis = NoAnalysis
        /\ \A k \in DOMAIN event.incoming :
             AnalysedIn(event.cur, event.incoming[k].id) # {} =>
                \E i \in DOMAIN emails :
                    /\ emails[i].id = event.incoming[k].id
                    /\ emails[i].analysis.present

\* A merge that met an analysed record again, a record it had never seen and an
\* unanalysed record it had.
MergePreservesAnalysisWitness ==
    /\ event.op = "merge"
    /\ Len(emails) = 3
    /\ emails[1].analysis = Analysis(1)
    /\ emails[2].analysis = NoAnalysis
    /\ \A j \in DOMAIN event.cur : event.cur[j].id # emails[2].id
    /\ emails[3].analysis = NoAnalysis
    /\ \E j \in DOMAIN event.cur : event.cur[j].id = emails[3].id

\* C2: the output of mergeEmails has the ids of the incoming list in the order
\* of the incoming list, whatever the closure's working set holds.
MergeFollowsIncoming ==
    event.op = "merge" => IdsOf(emails) = IdsOf(event.incoming)

\* A merge whose closure held an analysed record the incoming list lacks, and
\* held the incoming records in another order.
MergeFollowsIncomingWitness ==
    /\ event.op = "merge"
    /\ Len(event.incoming) = 2
    /\ Len(event.cur) = 3
    /\ event.cur[1].id = event.incoming[2].id
    /\ event.cur[2].analysis.present
    /\ \A k \in DOMAIN event.incoming : event.incoming[k].id # event.cur[2].id
    /\ event.cur[3].id = event.incoming[1].id

\* C3: merging the same incoming list into the output of its own merge gives
\* that output again.
MergeIdempotent ==
    event.op = "remerge" => emails = event.cur

\* A second merge over an output that carries a preserved analysis.
MergeIdempotentWitness ==
    /\ event.op = "remerge"
    /\ Len(emails) = 2
    /\ emails[1].analysis = Analysis(0)
    /\ emails[2].analysis = NoAnalysis
    /\ emails[1].receivedAt = Day2

\* C4: after a successful batch analysis the working set is the closure's
\* working set, record by record, where a record whose id the result map lacks
\* has the analysis it had when the call was made and a record whose id the map
\* has carries the map's analysis.
AnalysisFrame ==
    (event.op = "ai" /\ event.kind = "ok") =>
        /\ Len(emails) = Len(event.cur)
        /\ \A i \in DOMAIN emails :
             /\ i \in DOMAIN event.cur
             /\ emails[i].id = event.cur[i].id
             /\ emails[i].analysis =
                    IF emails[i].id \in DOMAIN event.results
                    THEN event.results[emails[i].id]
                    ELSE event.cur[i].analysis

\* A successful batch analysis whose map lacks an id that was analysed before.
AnalysisFrameWitness ==
    /\ event.op = "ai"
    /\ event.kind = "ok"
    /\ \E i \in DOMAIN emails :
         /\ emails[i].id \notin DOMAIN event.results
         /\ emails[i].analysis.present

\* C5: a step in which the batch analysis call fails (any failure of the
\* service, or missing credentials) changes neither the working set nor the
\* persisted list, and leaves the analyzing flag cleared.
AnalysisFailureFrame ==
    [][(event'.op = "ai" /\ event'.kind # "ok") =>
          /\ event'.threw
          /\ emails' = emails
          /\ stored' = stored
          /\ isAnalyzing' = FALSE]_vars

\* A failed batch analysis over a working set that holds an analysis, with
\* nothing persisted.
AnalysisFailureFrameWitness ==
    /\ event.op = "ai"
    /\ event.kind \in AIFailures
    /\ event.threw
    /\ ~isAnalyzing
    /\ Len(event.incoming) > 0
    /\ Len(emails) > 0

\* C6: syncEmailsWithBackend throws for every failed sync request, and the
\* step in which handleSync handles it changes neither the working set nor the
\* persisted list.
SyncFailureFrame ==
    [][(event'.op = "sync" /\ event'.kind # "ok") =>
          /\ event'.threw
          /\ emails' = emails
          /\ stored' = stored]_vars

\* A failed sync over a non-empty working set.
SyncFailureFrameWitness ==
    /\ event.op = "sync"
    /\ event.kind \in {"unreachable", "non2xx"}
    /\ event.threw
    /\ Len(emails) > 0
    /\ ~isSyncing

\* The grouping key as the claim states it.
GroupingKey(e) == IF e.threadId = NoThread THEN e.id ELSE e.threadId

\* The places <<thread, index>> of a thread list.
PositionsIn(ths) == UNION {{<<t, k>> : k \in DOMAIN ths[t]} : t \in DOMAIN ths}

\* C7: the threads partition the working set by grouping key: as many messages
\* as the working set has, every working-set record at exactly one place, and
\* two places in the same thread exactly when their grouping keys are equal.
ThreadsPartition ==
    LET P == PositionsIn(threads)
    IN  /\ Cardinality(P) = Len(emails)
        /\ \A i \in DOMAIN emails :
             /\ Cardinality({p \in P : threads[p[1]][p[2]].id = emails[i].id}) = 1
             /\ \E p \in P : threads[p[1]][p[2]] = emails[i]
        /\ \A p, q \in P :
             (p[1] = q[1]) <=>
                 GroupingKey(threads[p[1]][p[2]]) = GroupingKey(threads[q[1]][q[2]])

\* A message without threadId grouped with a reply that names it, apart from a
\* third message.
ThreadsPartitionWitness ==
    /\ Len(emails) = 3
    /\ Len(threads) = 2
    /\ \E t \in DOMAIN threads :
         /\ Len(threads[t]) = 2
         /\ \E k, l \in DOMAIN threads[t] :
              /\ threads[t][k].threadId = NoThread
              /\ threads[t][l].threadId = threads[t][k].id
              /\ threads[t][l].id # threads[t][k].id

\* The score the claim orders by: a missing analysis counts as 0.
ScoreOrZero(e) == IF e.analysis.present THEN e.analysis.urgencyScore ELSE 0

\* C8: along the thread list the latest (last) messages are non-increasing in
\* urgencyScore (missing counted as 0) and, where the scores are equal,
\* non-increasing in receivedAt.
ThreadsOrderedByLatest ==
    \A t \in 1..(Len(threads) - 1) :
        LET a == Last(threads[t])
            b == Last(threads[t + 1])
        IN  /\ ScoreOrZero(a) >= ScoreOrZero(b)
            /\ ScoreOrZero(a) = ScoreOrZero(b) => GetTime(a) >= GetTime(b)

\* Three threads: a scored one first, then an unanalysed one and a 0-scored one
\* ordered by date, the last of them being the first record of the working set.
ThreadsOrderedByLatestWitness ==
    /\ Len(threads) = 3
    /\ Last(threads[1]).analysis = Analysis(1)
    /\ Last(threads[2]).analysis = NoAnalysis
    /\ Last(threads[3]).analysis = Analysis(0)
    /\ Last(threads[2]).receivedAt = Day2
    /\ Last(threads[3]).receivedAt = Day1
    /\ emails[1] = Last(threads[3])

\* The index of the record with this id in the working set.
IndexOf(list, id) == CHOOSE i \in DOMAIN list : list[i].id = id

\* C9: inside every thread the messages are non-decreasing in receivedAt, and
\* messages of equal receivedAt stand in the order of the working set.
ThreadMessagesOrdered ==
    \A t \in DOMAIN threads :
        \A k, l \in DOMAIN threads[t] :
            k < l =>
                /\ GetTime(threads[t][k]) <= GetTime(threads[t][l])
                /\ GetTime(threads[t][k]) = GetTime(threads[t][l]) =>
                      IndexOf(emails, threads[t][k].id)
                          < IndexOf(emails, threads[t][l].id)

\* One thread of three whose newest message came first in the working set and
\* whose other two share a date.
ThreadMessagesOrderedWitness ==
    /\ Len(emails) = 3
    /\ Len(threads) = 1
    /\ threads[1] = <<emails[2], emails[3], emails[1]>>
    /\ emails[2].receivedAt = emails[3].receivedAt

\* C10: the batch handleRunAI hands to analyzeEmailBatch holds, for every
\* thread of the working set, the thread's last message and no other message;
\* no message of the thread has a later receivedAt than the one submitted.
BatchIsLatestPerThread ==
    event.op = "aiClick" =>
        LET batch == event.incoming
        IN  /\ Len(batch) = Len(threads)
            /\ \A t \in DOMAIN threads :
                 /\ Cardinality({i \in DOMAIN batch :
                                    GroupingKey(batch[i]) =
                                        GroupingKey(threads[t][1])}) = 1
                 /\ \E i \in DOMAIN batch : batch[i] = Last(threads[t])
                 /\ \A k \in DOMAIN threads[t] :
                      GetTime(threads[t][k]) <= GetTime(Last(threads[t]))
            /\ \A r \in DOMAIN aiReqs : aiReqs[r].batch = batch

\* A click over two threads, one of two messages whose older message is left
\* out of the batch.
BatchIsLatestPerThreadWitness ==
    /\ event.op = "aiClick"
    /\ Len(aiReqs) = 1
    /\ Len(threads) = 2
    /\ Len(emails) = 3
    /\ Len(aiReqs[1].batch) = 2
    /\ \E t \in DOMAIN threads :
         /\ Len(threads[t]) = 2
         /\ \A i \in DOMAIN aiReqs[1].batch : aiReqs[1].batch[i] # threads[t][1]

\* C11: at every moment at most one sync request and at most one batch
\* analysis request are in flight, and the busy flags that disable the Fetch
\* and Run AI buttons are set exactly while one is.
OneRequestInFlight ==
    /\ Len(syncReqs) <= 1
    /\ Len(aiReqs) <= 1
    /\ isSyncing <=> Len(syncReqs) = 1
    /\ isAnalyzing <=> Len(aiReqs) = 1

\* The inbox is on screen with a working set while a sync started by a Fetch
\* click and a batch analysis are both pending.
OneRequestInFlightWitness ==
    /\ InboxVisible
    /\ Len(threads) > 0
    /\ Len(syncReqs) = 1
    /\ ~syncReqs[1].auto
    /\ Len(aiReqs) = 1

\* The component's own state: what the setters of App write.
componentState ==
    <<emails, threads, isLoadingAuth, isAuthenticated, isConfigured, isOffline,
      activeTab, isSyncing, isAnalyzing>>

\* C12: unmounting stops no request that is in flight, and once the component
\* is unmounted the completion of an operation the mount effect started (the
\* auth status check, the cache load, the background sync) changes nothing of
\* the component's state.
UnmountGuardsMountEffect ==
    [][/\ (mounted /\ ~mounted') => reqVars' = reqVars
       /\ (/\ ~mounted /\ ~mounted'
           /\ \/ statusReq' # statusReq
              \/ cacheReqs' # cacheReqs
              \/ /\ syncReqs # <<>>
                 /\ syncReqs[1].auto
                 /\ syncReqs' = <<>>)
          => componentState' = componentState]_vars

\* The answers of a data or status endpoint that are failures.
FailureKinds == {"unreachable", "non2xx", "badjson"}

\* The calls of the read-only and status operations.
ReadOnlyOps ==
    {"checkBackendAuthStatus", "fetchEmailsFromBackend", "searchEmailsOnBackend"}

\* C13 as stated: a read-only or status operation never throws, and on a
\* failed request a list operation returns the empty list and the status
\* check returns signed-out flags.
ReadOnlyDegradesToEmpty ==
    event.op \in ReadOnlyOps =>
        /\ ~event.threw
        /\ event.kind \in FailureKinds =>
              IF event.op = "checkBackendAuthStatus"
              THEN ~event.value.isAuthenticated
              ELSE event.value = <<>>

\* C13, amended: a read-only or status operation never throws; on a failed
\* request the search returns the empty list, the cache fetch returns the
\* built-in mock inbox, and the status check returns signed-out,
\* not-configured flags with isOffline set unless the backend answered with
\* a non-2xx status.
ReadOnlyDegrades ==
    event.op \in ReadOnlyOps =>
        /\ ~event.threw
        /\ event.kind \in FailureKinds =>
              CASE event.op = "checkBackendAuthStatus" ->
                      event.value = [isConfigured |-> FALSE,
                                     isAuthenticated |-> FALSE,
                                     isOffline |-> event.kind # "non2xx"]
                [] event.op = "fetchEmailsFromBackend" ->
                      event.value = MOCK_EMAILS
                [] event.op = "searchEmailsOnBackend" ->
                      event.value = <<>>

\* A cache fetch against an unreachable backend comes back with the mocks.
ReadOnlyDegradesWitness ==
    /\ event.op = "fetchEmailsFromBackend"
    /\ event.kind = "unreachable"
    /\ ~event.threw
    /\ event.value = MOCK_EMAILS
    /\ Len(event.value) > 0

\* C14: when credentials are missing, analyzeEmailBatch throws without having
\* sent a request, the caller sees the error getAI made, its remediation
\* message unchanged, and no client is cached, so every later call checks the
\* credentials again and fails the same way.
MissingKeyFailsFirst ==
    (event.op = "analyzeEmailBatch" /\ ~event.key) =>
        /\ event.threw
        /\ ~event.requested
        /\ event.error = NewError(ConfigMessage)
        /\ ~aiInstance

\* A call without credentials, failed with the configuration error.
MissingKeyFailsFirstWitness ==
    /\ event.op = "analyzeEmailBatch"
    /\ ~apiKey
    /\ event.threw
    /\ event.error.message = ConfigMessage
    /\ ~aiInstance

\* The three errors of the claim, as the caller can tell them apart.
IsConfigError(e) == e = NewError(ConfigMessage)
IsAuthorizationError(e) ==
    e \in {NewError(LeakedMessage), NewError(InvalidKeyMessage)}
IsGenericError(e, thrown) ==
    IF thrown.error.present /\ thrown.error.message # NoMessage
    THEN e = NewError("API Error: " \o thrown.error.message)
    ELSE e = thrown

\* An authorization or leaked-credential answer of the service, told by its
\* code or by its content.
AuthorizationResponse(thrown) ==
    /\ thrown.error.present
    /\ \/ thrown.error.code \in {401, 403}
       \/ IncludesLeaked(thrown.error.message)
       \/ IncludesApiKey(thrown.error.message)

\* C15: every failed analyzeEmailBatch call throws, and what the caller sees
\* is the configuration error when credentials are missing, one of the two
\* fixed authorization errors (both tell the user to get a new key) for every
\* authorization or leaked-credential answer, and otherwise a generic error:
\* "API Error: " with the service's message when there is one, else the thrown
\* value itself; the generic error is never one of the fixed ones.
FailureIsOneOfThree ==
    (event.op = "analyzeEmailBatch" /\ (event.kind # "ok" \/ ~event.requested))
        => /\ event.threw
           /\ IF ~event.requested
              THEN IsConfigError(event.error)
              ELSE IF AuthorizationResponse(event.thrown)
              THEN IsAuthorizationError(event.error)
              ELSE /\ IsGenericError(event.error, event.thrown)
                   /\ ~IsConfigError(event.error)
                   /\ ~IsAuthorizationError(event.error)

\* A quota answer of the service reaches the caller with the service's words.
FailureIsOneOfThreeWitness ==
    /\ event.op = "analyzeEmailBatch"
    /\ event.requested
    /\ event.thrown.error = ErrorBody(429, "Resource has been exhausted.")
    /\ event.threw
    /\ event.error.message = "API Error: Resource has been exhausted."

\* A call of an AI operation that failed: no client could be built, or the
\* request did not give an answer.
AICallFailed == ~event.requested \/ event.kind # "ok"

\* C16: generateSmartReply never throws and returns the fixed error text for
\* every failure of client construction or of the service call, whereas a
\* failed analyzeEmailBatch throws to its caller.
ReplyFailsClosed ==
    /\ event.op = "generateSmartReply" =>
          /\ ~event.threw
          /\ AICallFailed => event.value = ReplyErrorText
    /\ (event.op = "analyzeEmailBatch" /\ AICallFailed) => event.threw

\* A reply draft asked for without credentials.
ReplyFailsClosedWitness ==
    /\ event.op = "generateSmartReply"
    /\ ~event.key
    /\ ~event.requested
    /\ ~event.threw
    /\ event.value = ReplyErrorText

\* C17 as stated: every record the normalizer produces has the raw record's
\* threadId when that is present and the record's id when it is not.
NormalizerDefaultsThreadId ==
    event.op = "mapBackendMessageToEmail" =>
        event.value.threadId =
            IF event.raw.threadId # NoThread
            THEN event.raw.threadId
            ELSE event.raw.id

\* C17, amended: the normalizer hands the raw record's threadId on as it is,
\* absent when it was absent; it is the key the record is grouped by that is
\* the threadId when present and the record's id otherwise.
NormalizerPassesThreadId ==
    event.op = "mapBackendMessageToEmail" =>
        /\ event.value.threadId = event.raw.threadId
        /\ event.value.id = event.raw.id
        /\ ThreadKey(event.value) =
              IF event.raw.threadId # NoThread
              THEN event.raw.threadId
              ELSE event.raw.id

\* A raw record without threadId, normalized.
NormalizerPassesThreadIdWitness ==
    /\ event.op = "mapBackendMessageToEmail"
    /\ event.raw.threadId = NoThread
    /\ event.value.threadId = NoThread
    /\ ThreadKey(event.value) = event.value.id

\* The places <<i, j>> of a header where a "<" stands before a ">".
AngleForms(from) ==
    {p \in (DOMAIN from) \X (DOMAIN from) :
        p[1] < p[2] /\ from[p[1]] = "<" /\ from[p[2]] = ">"}

\* C18: the normalizer derives a sender for every header. A header with a "<"
\* before a ">" reads as Name <addr> in some way such that senderName is Name
\* trimmed and then freed of quotes and sender is addr trimmed (in the one way
\* there is when it has one bracket of each kind); sender then has no blank at
\* either end and senderName no quote. Any other non-empty header is both
\* name and address as it is; an absent or empty header gives the fallback.
SenderDerivation ==
    event.op = "mapBackendMessageToEmail" =>
        LET from == event.raw.from
            name == event.value.senderName
            addr == event.value.sender
        IN  CASE from = NoFrom ->
                    name = UnknownName /\ addr = UnknownEmail
              [] from # NoFrom /\ AngleForms(from) = {} ->
                    name = from /\ addr = from
              [] OTHER ->
                    /\ \E p \in AngleForms(from) :
                         /\ name = StripQuotes(Trim(SubSeq(from, 1, p[1] - 1)))
                         /\ addr = Trim(SubSeq(from, p[1] + 1, p[2] - 1))
                    /\ \A k \in DOMAIN name : name[k] # "\""
                    /\ addr # <<>> => addr[1] # " " /\ addr[Len(addr)] # " "

\* The headers `"x<x>` and `x <x>`: a quote to strip, a blank to trim.
SenderDerivationWitness ==
    /\ event.op = "mapBackendMessageToEmail"
    /\ event.raw.from \in {<<"\"", "x", "<", "x", ">">>,
                           <<"x", " ", "<", "x", ">">>}
    /\ event.value.senderName = <<"x">>
    /\ event.value.sender = <<"x">>

\* The ids of a list, as a set.
IdSet(list) == {list[k].id : k \in DOMAIN list}

\* The list holds a record with this id and this analysis.
Carries(list, id, analysis) ==
    \E k \in DOMAIN list : list[k].id = id /\ list[k].analysis = analysis

\* C19: when a batch analysis completes and attaches an analysis to message X
\* while a sync is in flight, and that sync then completes with a response
\* that contains X, X still carries that analysis in the working set and in
\* the persisted list.
AnalysisSurvivesSync ==
    [][(/\ event.op = "ai" /\ event.kind = "ok"
        /\ event'.op = "sync" /\ event'.kind = "ok"
        /\ mounted')
       => \A j \in DOMAIN emails :
             (/\ emails[j].id \in DOMAIN event.results
              /\ emails[j].id \in IdSet(event'.incoming))
             => /\ Carries(emails', emails[j].id, emails[j].analysis)
                /\ Carries(stored'.emails, emails[j].id, emails[j].analysis)]_vars

\* C20: when a sync completes successfully while a batch analysis is in
\* flight, and that analysis then completes, the working set and the persisted
\* list have exactly the ids of the sync's response.
SyncMembershipSurvivesAnalysis ==
    [][(/\ event.op = "sync" /\ event.kind = "ok"
        /\ event'.op = "ai" /\ event'.kind = "ok"
        /\ mounted')
       => /\ IdSet(emails') = IdSet(event.incoming)
          /\ IdSet(stored'.emails) = IdSet(event.incoming)]_vars

\* The mount effect's two requests have both been answered.
MountRequestsDone ==
    /\ statusReq = "done"
    /\ isAuthenticated
    /\ cacheReqs = <<>>
    /\ syncReqs = <<>>

\* C21: on an authenticated mount, once the cache load and the background
\* sync have both completed and the sync succeeded, the working set has the
\* ids of the sync's response and equals the list the sync persisted,
\* whichever of the two answers came last.
MountSettlesOnSync ==
    [][LET syncLast == event'.op = "sync"
           cacheLast == event'.op = "cache" /\ event.op = "sync"
           sync == IF syncLast THEN event' ELSE event
       IN  (/\ MountRequestsDone'
            /\ syncLast \/ cacheLast
            /\ sync.kind = "ok")
           => /\ IdSet(emails') = IdSet(sync.incoming)
              /\ emails' = stored'.emails]_vars

\* The step is the answer to a request of the mount effect: the cache load
\* (only the mount effect starts one) or the background sync.
MountAnswer ==
    /\ event'.kind = "ok"
    /\ \/ event'.op = "cache"
       \/ /\ event'.op = "sync"
          /\ \A i \in DOMAIN syncReqs : syncReqs[i].auto

\* C22: for an authenticated user, when the persisted list holds message X
\* with an analysis made by an earlier session (this page has not constructed
\* an AI client) and the mount's cache load or background sync returns X,
\* X carries that analysis in the working set afterwards and the persisted
\* list still holds X with it.
AnalysisSurvivesReload ==
    [][(/\ MountAnswer
        /\ ~aiInstance
        /\ mounted')
       => \A j \in DOMAIN stored.emails :
             (/\ stored.emails[j].analysis # NoAnalysis
              /\ stored.emails[j].id \in IdSet(event'.incoming))
             => /\ Carries(emails', stored.emails[j].id,
                           stored.emails[j].analysis)
                /\ Carries(stored'.emails, stored.emails[j].id,
                           stored.emails[j].analysis)]_vars

====
